---- MODULE Spec2Model ----
(***************************************************************************)
(* Agent guard rails of VetoMCP (src/tools/agent_guard_rails.py).          *)
(*                                                                         *)
(* Amounts and limits are whole currency units (the floats of the code     *)
(* are exact on these values); the clock counts days.  A reason string is  *)
(* modelled by the tag of the message template that produced it.           *)
(***************************************************************************)
EXTENDS Integers, Sequences, FiniteSets, TLC

VARIABLES users, settings, ledger, now, nextId, procs, eng

vars == <<users, settings, ledger, now, nextId, procs, eng>>

(* ---------------- bounds of the model ---------------- *)

MaxLedger == 3

MaxSeqLedger == 2

MaxNow == 2

(* ---------------- values ---------------- *)

Users == {"alice"}

Procs == {"p1", "p2"}

None == <<>>

Some(x) == <<x>>

\* AuthorizationStatus wire values
Statuses == {"APPROVED", "DENIED", "CAUTION", "REQUIRES_HUMAN_APPROVAL", "ERROR"}

\* AgentSettingsCreate() field defaults
DefaultSingle == 50

DefaultDaily == 100

DefaultWeekly == 500

DefaultMonthly == 2000

DefaultApproval == 100

\* timedelta(days=1), timedelta(weeks=1), timedelta(days=30), in days
DailyWindow == 1

WeeklyWindow == 7

MonthlyWindow == 30

(* ---------------- the policy checks of authorize_purchase ---------------- *)

\* Python truthiness of an optional list: None and [] are false
Truthy(opt) == opt # None /\ opt[1] # {}

\* the state the checks thread through: status = APPROVED, reasons = []
StartDecision == [status |-> "APPROVED", reasons |-> <<>>]

CheckBlocked(d, s, category) ==
    IF Truthy(s.blocked_categories) /\ category \in s.blocked_categories[1]
    THEN [status |-> "DENIED", reasons |-> Append(d.reasons, "blocked")]
    ELSE d

CheckAllowed(d, s, category) ==
    IF Truthy(s.allowed_categories) /\ category \notin s.allowed_categories[1]
    THEN [status |-> "DENIED", reasons |-> Append(d.reasons, "not_allowed")]
    ELSE d

\* a mutant: the 1.5x comparison made inclusive
CheckSingleInclusive(d, s, amount) ==
    IF amount > s.single_transaction_limit
    THEN IF 2 * amount >= 3 * s.single_transaction_limit
         THEN [status |-> "DENIED", reasons |-> Append(d.reasons, "single_denied")]
         ELSE [status |-> "CAUTION", reasons |-> Append(d.reasons, "single_caution")]
    ELSE d

\* amount > limit * 1.5 is 2 * amount > 3 * limit
CheckSingle(d, s, amount) ==
    IF amount > s.single_transaction_limit
    THEN IF 2 * amount > 3 * s.single_transaction_limit
         THEN [status |-> "DENIED", reasons |-> Append(d.reasons, "single_denied")]
         ELSE [status |-> "CAUTION", reasons |-> Append(d.reasons, "single_caution")]
    ELSE d

\* a mutant: the weekly limit gates the decision as well
CheckDailyOrWeekly(d, s, daily_spend, amount) ==
    IF daily_spend + amount > s.daily_limit \/ daily_spend + amount > s.weekly_limit
    THEN [status |-> "DENIED", reasons |-> Append(d.reasons, "daily")]
    ELSE d

CheckDaily(d, s, daily_spend, amount) ==
    IF daily_spend + amount > s.daily_limit
    THEN [status |-> "DENIED", reasons |-> Append(d.reasons, "daily")]
    ELSE d

\* a mutant: the approval threshold made exclusive
CheckApprovalStrict(d, s, amount) ==
    IF amount > s.require_approval_above
    THEN [status |-> "REQUIRES_HUMAN_APPROVAL", reasons |-> Append(d.reasons, "approval")]
    ELSE d

CheckApproval(d, s, amount) ==
    IF amount >= s.require_approval_above
    THEN [status |-> "REQUIRES_HUMAN_APPROVAL", reasons |-> Append(d.reasons, "approval")]
    ELSE d

\* a mutant: settings that are not active deny every purchase
DecideIfActive(s, daily_spend, amount, category) ==
    IF s.is_active
    THEN CheckApproval(CheckDaily(CheckSingle(CheckAllowed(
             CheckBlocked(StartDecision, s, category), s, category), s, amount),
             s, daily_spend, amount), s, amount)
    ELSE [status |-> "DENIED", reasons |-> <<"inactive">>]

\* the five checks in the order the code runs them
Decide(s, daily_spend, amount, category) ==
    CheckApproval(
        CheckDaily(
            CheckSingle(
                CheckAllowed(
                    CheckBlocked(StartDecision, s, category),
                    s, category),
                s, amount),
            s, daily_spend, amount),
        s, amount)

(* ---------------- rows ---------------- *)

\* a row of veto_agent_settings as create_agent_settings writes it
SettingsRow(id, user_id, single, daily, weekly, monthly, approval, allowed, blocked, t) ==
    [id |-> id, user_id |-> user_id,
     single_transaction_limit |-> single, daily_limit |-> daily,
     weekly_limit |-> weekly, monthly_limit |-> monthly,
     require_approval_above |-> approval,
     allowed_categories |-> IF Truthy(allowed) THEN allowed ELSE None,
     blocked_categories |-> IF Truthy(blocked) THEN blocked ELSE Some({}),
     is_active |-> TRUE, created_at |-> t, updated_at |-> t]

\* the five limits of a settings row
LimitFields ==
    {"single_transaction_limit", "daily_limit", "weekly_limit", "monthly_limit",
     "require_approval_above"}

\* AgentSettingsUpdate(): every field optional and absent
NoData ==
    [single_transaction_limit |-> None, daily_limit |-> None, weekly_limit |-> None,
     monthly_limit |-> None, require_approval_above |-> None,
     allowed_categories |-> None, blocked_categories |-> None, is_active |-> None]

\* a mutant: a supplied value is merged only when it is truthy
MergeTruthy(old, opt) == IF opt # None /\ opt[1] # 0 THEN opt[1] ELSE old

\* if data.x is not None: update_data["x"] = data.x
Merge(old, opt) == IF opt # None THEN opt[1] ELSE old

\* the row after .update(update_data); a category list is stored as the JSON
\* text of the list, which a row holds here as the set of its members
UpdatedRow(row, data, t) ==
    [row EXCEPT
        !.single_transaction_limit = Merge(@, data.single_transaction_limit),
        !.daily_limit = Merge(@, data.daily_limit),
        !.weekly_limit = Merge(@, data.weekly_limit),
        !.monthly_limit = Merge(@, data.monthly_limit),
        !.require_approval_above = Merge(@, data.require_approval_above),
        !.allowed_categories = IF data.allowed_categories # None
                               THEN data.allowed_categories ELSE @,
        !.blocked_categories = IF data.blocked_categories # None
                               THEN data.blocked_categories ELSE @,
        !.is_active = IF data.is_active # None THEN data.is_active[1] ELSE @,
        !.updated_at = t]

\* if x: base_settings.x = x, on AgentSettingsCreate()
Overlay(default, opt) == IF opt # None /\ opt[1] # 0 THEN opt[1] ELSE default

(* ---------------- the ledger queries ---------------- *)

\* the rolling window of a period name; any other name is daily
Window(period) ==
    CASE period = "daily" -> DailyWindow
      [] period = "weekly" -> WeeklyWindow
      [] period = "monthly" -> MonthlyWindow
      [] OTHER -> DailyWindow

\* a mutant: a record exactly one window old is outside the window
CountsStrict(r, user_id, period, t) ==
    /\ r.user_id = user_id
    /\ r.status = "APPROVED"
    /\ r.was_executed = TRUE
    /\ r.created_at > t - Window(period)

\* a mutant: the was_executed filter dropped
CountsAnyExecuted(r, user_id, period, t) ==
    /\ r.user_id = user_id
    /\ r.status = "APPROVED"
    /\ r.created_at >= t - Window(period)

\* the row filter of the spend query
Counts(r, user_id, period, t) ==
    /\ r.user_id = user_id
    /\ r.status = "APPROVED"
    /\ r.was_executed = TRUE
    /\ r.created_at >= t - Window(period)

RECURSIVE SumCounted(_, _, _, _)
SumCounted(rows, user_id, period, t) ==
    IF rows = <<>> THEN 0
    ELSE (IF Counts(Head(rows), user_id, period, t) THEN Head(rows).amount ELSE 0)
         + SumCounted(Tail(rows), user_id, period, t)

\* a mutant: every APPROVED record of the window counts from the moment it is logged
SpendOfApprovals(user_id, period) ==
    SumCounted([i \in 1..Len(ledger) |-> [ledger[i] EXCEPT !.was_executed = TRUE]],
               user_id, period, now)

get_cumulative_agent_spend(user_id, period) == SumCounted(ledger, user_id, period, now)

\* the rows of a table that a .eq("user_id", ...) filter selects, in table order
RowsOf(table, user_id) == SelectSeq(table, LAMBDA r : r.user_id = user_id)

Min(a, b) == IF a < b THEN a ELSE b

\* the orders .order("created_at", desc=True) can give the rows of S: rows of
\* one instant come in an order the store chooses
NewestFirst(S) ==
    {o \in [1..Cardinality(S) -> S] :
        /\ \A i, j \in 1..Cardinality(S) : i # j => o[i] # o[j]
        /\ \A i, j \in 1..Cardinality(S) :
               i < j => ledger[o[i]].created_at >= ledger[o[j]].created_at}

\* if status_filter: query = query.eq("status", status_filter)
StatusMatches(r, status_filter) ==
    (status_filter # None /\ status_filter[1] # "") => r.status = status_filter[1]

\* a mutant: the limit cuts the rows of the principal before the status filter
HistoryLimitFirst(user_id, limit, status_filter) ==
    {SelectSeq([i \in 1..Min(limit, Len(o)) |-> ledger[o[i]]],
               LAMBDA r : StatusMatches(r, status_filter)) :
        o \in NewestFirst({i \in 1..Len(ledger) : ledger[i].user_id = user_id})}

\* the results get_authorization_history can return: the filters of the request
\* select, the order sorts, the limit cuts
get_authorization_history(user_id, limit, status_filter) ==
    {[i \in 1..Min(limit, Len(o)) |-> ledger[o[i]]] :
        o \in NewestFirst({i \in 1..Len(ledger) :
                              /\ ledger[i].user_id = user_id
                              /\ StatusMatches(ledger[i], status_filter)})}

(* ---------------- calls ---------------- *)

SpecAmounts == {40, 60, 100}

SpecCategories == {"Food"}

\* the decision harness is not running
EngOff == [pc |-> "off"]

IdleProc ==
    [pc |-> "idle", op |-> "none", username |-> "none", amount |-> 0, category |-> "none",
     user_id |-> None, settings |-> None,
     daily_spend |-> 0, weekly_spend |-> 0,
     status |-> "none", reasons |-> <<>>, remaining_daily |-> 0, remaining_weekly |-> 0,
     rows_seen |-> 0, error |-> None,
     data |-> NoData, limit |-> 0, status_filter |-> None,
     result |-> None, history |-> <<>>]

\* a mutant: the exception is not caught and leaves the handler
ErrorEscapes(c) ==
    [IdleProc EXCEPT !.pc = "raised", !.op = c.op, !.username = c.username]

\* except Exception: the response is {"status": "ERROR", "error": str(e)}, or
\* {"success": false, "error": str(e)} or {"error": str(e)} from the other
\* tools, and the locals of the call are gone; the message is that of the
\* storage call that raised
ErrorResponse(c) ==
    [IdleProc EXCEPT !.pc = "done", !.op = c.op, !.username = c.username,
                     !.status = IF c.op = "authorize_purchase" THEN "ERROR" ELSE "none",
                     !.error = Some(c.pc)]

\* the ledger, with the inserts that calls under way will still make, stays
\* under max rows
LedgerRoom(max) ==
    Len(ledger)
      + Cardinality({q \in Procs : /\ procs[q].op \in {"authorize_purchase",
                                                         "log_agent_authorization"}
                                    /\ procs[q].pc # "done"})
      < max

\* authorize_purchase is invoked
CallAuthorize(p, username, amount, category) ==
    /\ procs[p].pc = "idle"
    /\ procs' = [procs EXCEPT ![p] = [IdleProc EXCEPT !.pc = "user_lookup",
                                         !.op = "authorize_purchase", !.username = username,
                                         !.amount = amount, !.category = category]]
    /\ UNCHANGED <<users, settings, ledger, now, nextId, eng>>

\* what a tool does once it has the user id
AfterUser(op) ==
    CASE op = "log_agent_authorization" -> "log_insert"
      [] op = "get_agent_authorization_history_tool" -> "history"
      [] OTHER -> "settings_get"

\* what a tool does with the settings row it found
AfterFound(op) ==
    CASE op = "authorize_purchase" -> "spend_daily"
      [] op = "set_agent_spending_limits" -> "settings_update"
      [] OTHER -> "done"

\* what a tool does when the principal has no settings row
AfterMissing(op) ==
    IF op = "set_agent_spending_limits" THEN "limits_insert" ELSE "settings_insert"

\* get_user_id_from_username, and the first half of get_or_create_user_id
GetUserId(p) ==
    /\ procs[p].pc = "user_lookup"
    /\ procs' = [procs EXCEPT ![p] =
                    IF procs[p].username \in users
                    THEN [@ EXCEPT !.pc = AfterUser(procs[p].op),
                                   !.user_id = Some(procs[p].username)]
                    ELSE [@ EXCEPT !.pc = "user_insert"]]
    /\ UNCHANGED <<users, settings, ledger, now, nextId, eng>>

\* the insert of get_or_create_user_id; usernames are unique, so the loser of a
\* race gets the storage error
InsertUser(p) ==
    /\ procs[p].pc = "user_insert"
    /\ IF procs[p].username \notin users
       THEN /\ users' = users \cup {procs[p].username}
            /\ procs' = [procs EXCEPT ![p] = [@ EXCEPT !.pc = AfterUser(procs[p].op),
                                                       !.user_id = Some(procs[p].username)]]
       ELSE /\ users' = users
            /\ procs' = [procs EXCEPT ![p] = ErrorResponse(procs[p])]
    /\ UNCHANGED <<settings, ledger, now, nextId, eng>>

\* a mutant: the row found is not returned and defaults are created again
GetSettingsAlwaysCreate(p) ==
    /\ procs[p].pc = "settings_get"
    /\ procs' = [procs EXCEPT ![p] = [@ EXCEPT !.pc = AfterMissing(procs[p].op)]]
    /\ UNCHANGED <<users, settings, ledger, now, nextId, eng>>

\* get_agent_settings, and the branch on its result in
\* get_or_create_agent_settings and in set_agent_spending_limits
GetSettings(p) ==
    /\ procs[p].pc = "settings_get"
    /\ LET rows == RowsOf(settings, procs[p].user_id[1])
       IN  procs' = [procs EXCEPT ![p] =
                        IF rows # <<>>
                        THEN [@ EXCEPT !.pc = AfterFound(procs[p].op),
                                       !.settings = Some(rows[1])]
                        ELSE [@ EXCEPT !.pc = AfterMissing(procs[p].op)]]
    /\ UNCHANGED <<users, settings, ledger, now, nextId, eng>>

\* create_agent_settings with AgentSettingsCreate()
CreateDefaultSettings(p) ==
    /\ procs[p].pc = "settings_insert"
    /\ LET row == SettingsRow(nextId, procs[p].user_id[1], DefaultSingle, DefaultDaily,
                              DefaultWeekly, DefaultMonthly, DefaultApproval, None, None, now)
       IN  /\ settings' = Append(settings, row)
           /\ procs' = [procs EXCEPT ![p] = [@ EXCEPT !.pc = AfterFound(procs[p].op),
                                                      !.settings = Some(row)]]
    /\ nextId' = nextId + 1
    /\ UNCHANGED <<users, ledger, now, eng>>

\* a mutant: calls for one principal exclude each other from the daily read to the append
ReadDailySpendLocked(p) ==
    /\ procs[p].pc = "spend_daily"
    /\ \A q \in Procs \ {p} :
           ~(procs[q].user_id = procs[p].user_id
             /\ procs[q].pc \in {"spend_weekly", "spend_monthly", "log"})
    /\ procs' = [procs EXCEPT ![p] = [@ EXCEPT !.pc = "spend_weekly",
                    !.daily_spend = get_cumulative_agent_spend(procs[p].user_id[1], "daily"),
                    !.rows_seen = Len(ledger)]]
    /\ UNCHANGED <<users, settings, ledger, now, nextId, eng>>

\* the three spend queries of authorize_purchase; monthly_spend is never read
\* again; rows_seen notes how many rows the ledger held at the daily query
ReadDailySpend(p) ==
    /\ procs[p].pc = "spend_daily"
    /\ procs' = [procs EXCEPT ![p] = [@ EXCEPT !.pc = "spend_weekly",
                    !.daily_spend = get_cumulative_agent_spend(procs[p].user_id[1], "daily"),
                    !.rows_seen = Len(ledger)]]
    /\ UNCHANGED <<users, settings, ledger, now, nextId, eng>>

ReadWeeklySpend(p) ==
    /\ procs[p].pc = "spend_weekly"
    /\ procs' = [procs EXCEPT ![p] = [@ EXCEPT !.pc = "spend_monthly",
                    !.weekly_spend = get_cumulative_agent_spend(procs[p].user_id[1], "weekly")]]
    /\ UNCHANGED <<users, settings, ledger, now, nextId, eng>>

ReadMonthlySpend(p) ==
    /\ procs[p].pc = "spend_monthly"
    /\ get_cumulative_agent_spend(procs[p].user_id[1], "monthly") \in Int
    /\ procs' = [procs EXCEPT ![p] = [@ EXCEPT !.pc = "log"]]
    /\ UNCHANGED <<users, settings, ledger, now, nextId, eng>>

\* a mutant: a record is born executed
LogRowExecuted(id, user_id, action_type, amount, category, status, reason, t) ==
    [id |-> id, user_id |-> user_id, action_type |-> action_type, amount |-> amount,
     category |-> category, status |-> status, reason |-> reason,
     was_executed |-> TRUE, created_at |-> t]

\* the row log_authorization inserts
LogRow(id, user_id, action_type, amount, category, status, reason, t) ==
    [id |-> id, user_id |-> user_id, action_type |-> action_type, amount |-> amount,
     category |-> category, status |-> status, reason |-> reason,
     was_executed |-> FALSE, created_at |-> t]

\* a mutant: the join is logged even when there is no reason
JoinReasonsOnly(reasons) == reasons

\* "; ".join(reasons) if reasons else "Within budget limits"
JoinReasons(reasons) == IF reasons # <<>> THEN reasons ELSE <<"within_budget">>

\* a mutant: only approvals are logged
ShouldLogApprovedOnly(status) == status = "APPROVED"

\* authorize_purchase logs whatever the status
ShouldLog(status) == TRUE

\* a mutant: the append waits until no other call is at its append
LogAndReturnWaits(p) ==
    /\ procs[p].pc = "log"
    /\ \A q \in Procs \ {p} : procs[q].pc # "log"
    /\ LET c == procs[p]
           s == c.settings[1]
           d == Decide(s, c.daily_spend, c.amount, c.category)
           row == LogRow(nextId, c.user_id[1], "purchase", c.amount, c.category,
                         d.status, JoinReasons(d.reasons), now)
       IN  /\ ledger' = Append(ledger, row)
           /\ nextId' = nextId + 1
           /\ procs' = [procs EXCEPT ![p] =
                  [@ EXCEPT !.pc = "done", !.status = d.status, !.reasons = d.reasons,
                            !.remaining_daily = s.daily_limit - c.daily_spend,
                            !.remaining_weekly = s.weekly_limit - c.weekly_spend]]
    /\ UNCHANGED <<users, settings, now, eng>>

\* the checks, log_authorization and the response of authorize_purchase
LogAndReturn(p) ==
    /\ procs[p].pc = "log"
    /\ LET c == procs[p]
           s == c.settings[1]
           d == Decide(s, c.daily_spend, c.amount, c.category)
           row == LogRow(nextId, c.user_id[1], "purchase", c.amount, c.category,
                         d.status, JoinReasons(d.reasons), now)
       IN  /\ IF ShouldLog(d.status)
              THEN /\ ledger' = Append(ledger, row)
                   /\ nextId' = nextId + 1
              ELSE UNCHANGED <<ledger, nextId>>
           /\ procs' = [procs EXCEPT ![p] =
                  [@ EXCEPT !.pc = "done", !.status = d.status, !.reasons = d.reasons,
                            !.remaining_daily = s.daily_limit - c.daily_spend,
                            !.remaining_weekly = s.weekly_limit - c.weekly_spend]]
    /\ UNCHANGED <<users, settings, now, eng>>

StoragePcs ==
    {"user_lookup", "user_insert", "settings_get", "settings_insert",
     "spend_daily", "spend_weekly", "spend_monthly", "log",
     "settings_update", "limits_insert", "log_insert", "history"}

\* the tools, whose bodies are wrapped in try / except Exception
Tools ==
    {"authorize_purchase", "set_agent_spending_limits", "get_agent_settings_tool",
     "log_agent_authorization", "get_agent_authorization_history_tool"}

\* a mutant: the append that fails has written its record
StorageFailAfterWrite(p) ==
    /\ procs[p].pc \in StoragePcs
    /\ procs[p].op \in Tools
    /\ procs' = [procs EXCEPT ![p] = ErrorResponse(procs[p])]
    /\ IF procs[p].pc = "log"
       THEN /\ ledger' = Append(ledger, LogRow(nextId, procs[p].user_id[1], "purchase",
                                               procs[p].amount, procs[p].category, "ERROR",
                                               <<>>, now))
            /\ nextId' = nextId + 1
       ELSE UNCHANGED <<ledger, nextId>>
    /\ UNCHANGED <<users, settings, now, eng>>

\* a mutant: a failed storage call starts the call over
StorageFailRetry(p) ==
    /\ procs[p].pc \in StoragePcs
    /\ procs' = [procs EXCEPT ![p] = [@ EXCEPT !.pc = "user_lookup"]]
    /\ UNCHANGED <<users, settings, ledger, now, nextId, eng>>

\* a storage call raises; except Exception turns it into the ERROR response
StorageFail(p) ==
    /\ procs[p].pc \in StoragePcs
    /\ procs[p].op \in Tools
    /\ procs' = [procs EXCEPT ![p] = ErrorResponse(procs[p])]
    /\ UNCHANGED <<users, settings, ledger, now, nextId, eng>>

\* the caller has the response; the task is free for the next call
Return(p) ==
    /\ procs[p].pc = "done"
    /\ procs' = [procs EXCEPT ![p] = IdleProc]
    /\ UNCHANGED <<users, settings, ledger, now, nextId, eng>>

\* time passes between storage calls
Tick ==
    /\ now < MaxNow
    /\ now' = now + 1
    /\ UNCHANGED <<users, settings, ledger, nextId, procs, eng>>

\* the executor of approved actions marks a record executed
MarkExecuted(i) ==
    /\ i \in 1..Len(ledger)
    /\ ledger[i].status = "APPROVED"
    /\ ledger[i].was_executed = FALSE
    /\ ledger' = [ledger EXCEPT ![i].was_executed = TRUE]
    /\ UNCHANGED <<users, settings, now, nextId, procs, eng>>

(* ---------------- the settings tools ---------------- *)

\* get_agent_settings_tool is invoked
CallGetSettings(p, username) ==
    /\ procs[p].pc = "idle"
    /\ procs' = [procs EXCEPT ![p] = [IdleProc EXCEPT !.pc = "user_lookup",
                                         !.op = "get_agent_settings_tool",
                                         !.username = username]]
    /\ UNCHANGED <<users, settings, ledger, now, nextId, eng>>

\* set_agent_spending_limits is invoked; data holds its five optional limits
CallSetLimits(p, username, data) ==
    /\ procs[p].pc = "idle"
    /\ procs' = [procs EXCEPT ![p] = [IdleProc EXCEPT !.pc = "user_lookup",
                                         !.op = "set_agent_spending_limits",
                                         !.username = username, !.data = data]]
    /\ UNCHANGED <<users, settings, ledger, now, nextId, eng>>

\* update_agent_settings is called with a user id
CallUpdate(p, user_id, data) ==
    /\ procs[p].pc = "idle"
    /\ procs' = [procs EXCEPT ![p] = [IdleProc EXCEPT !.pc = "settings_update",
                                         !.op = "update_agent_settings",
                                         !.user_id = Some(user_id), !.data = data]]
    /\ UNCHANGED <<users, settings, ledger, now, nextId, eng>>

\* a mutant: an update that finds no row creates one from the defaults
UpdateSettingsUpsert(p) ==
    /\ procs[p].pc = "settings_update"
    /\ LET c == procs[p]
           base == IF RowsOf(settings, c.user_id[1]) # <<>> THEN settings
                   ELSE Append(settings,
                               SettingsRow(nextId, c.user_id[1], DefaultSingle, DefaultDaily,
                                           DefaultWeekly, DefaultMonthly, DefaultApproval,
                                           None, None, now))
           updated == [i \in 1..Len(base) |->
                          IF base[i].user_id = c.user_id[1]
                          THEN UpdatedRow(base[i], c.data, now)
                          ELSE base[i]]
       IN  /\ settings' = updated
           /\ procs' = [procs EXCEPT ![p] =
                  [@ EXCEPT !.pc = "done", !.result = Some(RowsOf(updated, c.user_id[1])[1])]]
    /\ UNCHANGED <<users, ledger, now, nextId, eng>>

\* a mutant: the update is not filtered by user
UpdateSettingsOfAll(p) ==
    /\ procs[p].pc = "settings_update"
    /\ LET c == procs[p]
           updated == [i \in 1..Len(settings) |-> UpdatedRow(settings[i], c.data, now)]
           hit == RowsOf(updated, c.user_id[1])
       IN  /\ settings' = updated
           /\ procs' = [procs EXCEPT ![p] =
                  [@ EXCEPT !.pc = "done",
                            !.result = IF hit # <<>> THEN Some(hit[1]) ELSE None]]
    /\ UNCHANGED <<users, ledger, now, nextId, eng>>

\* update_agent_settings: every row of the user is updated; the first one, or
\* None when there is none, is returned
UpdateSettings(p) ==
    /\ procs[p].pc = "settings_update"
    /\ LET c == procs[p]
           updated == [i \in 1..Len(settings) |->
                          IF settings[i].user_id = c.user_id[1]
                          THEN UpdatedRow(settings[i], c.data, now)
                          ELSE settings[i]]
           hit == RowsOf(updated, c.user_id[1])
       IN  /\ settings' = updated
           /\ procs' = [procs EXCEPT ![p] =
                  [@ EXCEPT !.pc = "done",
                            !.result = IF hit # <<>> THEN Some(hit[1]) ELSE None]]
    /\ UNCHANGED <<users, ledger, now, nextId, eng>>

\* the else branch of set_agent_spending_limits: defaults, overlaid with the
\* limits given, go to create_agent_settings
CreateSettingsFromLimits(p) ==
    /\ procs[p].pc = "limits_insert"
    /\ LET c == procs[p]
           row == SettingsRow(nextId, c.user_id[1],
                      Overlay(DefaultSingle, c.data.single_transaction_limit),
                      Overlay(DefaultDaily, c.data.daily_limit),
                      Overlay(DefaultWeekly, c.data.weekly_limit),
                      Overlay(DefaultMonthly, c.data.monthly_limit),
                      Overlay(DefaultApproval, c.data.require_approval_above),
                      None, None, now)
       IN  /\ settings' = Append(settings, row)
           /\ procs' = [procs EXCEPT ![p] = [@ EXCEPT !.pc = "done", !.result = Some(row)]]
    /\ nextId' = nextId + 1
    /\ UNCHANGED <<users, ledger, now, eng>>

(* ---------------- the ledger tools ---------------- *)

\* str.upper on the status texts a caller sends
Upper(s) ==
    CASE s = "approved" -> "APPROVED"
      [] s = "Denied" -> "DENIED"
      [] OTHER -> s

\* a mutant: the status text is matched as it was sent
ParseStatusExact(s) == IF s \in Statuses THEN s ELSE "ERROR"

\* AuthorizationStatus(status.upper()), ERROR when that is no status
ParseStatus(s) == IF Upper(s) \in Statuses THEN Upper(s) ELSE "ERROR"

\* log_agent_authorization is invoked
CallLog(p, username, amount, status) ==
    /\ procs[p].pc = "idle"
    /\ procs' = [procs EXCEPT ![p] = [IdleProc EXCEPT !.pc = "user_lookup",
                                         !.op = "log_agent_authorization",
                                         !.username = username, !.amount = amount,
                                         !.status = status]]
    /\ UNCHANGED <<users, settings, ledger, now, nextId, eng>>

\* log_authorization for log_agent_authorization; category and reason are not given
LogInsert(p) ==
    /\ procs[p].pc = "log_insert"
    /\ LET c == procs[p]
           row == LogRow(nextId, c.user_id[1], "purchase", c.amount, "none",
                         ParseStatus(c.status), <<>>, now)
       IN  /\ ledger' = Append(ledger, row)
           /\ procs' = [procs EXCEPT ![p] = [@ EXCEPT !.pc = "done", !.result = Some(row)]]
    /\ nextId' = nextId + 1
    /\ UNCHANGED <<users, settings, now, eng>>

\* get_agent_authorization_history_tool is invoked; it passes no status filter
CallHistoryTool(p, username, limit) ==
    /\ procs[p].pc = "idle"
    /\ procs' = [procs EXCEPT ![p] = [IdleProc EXCEPT !.pc = "user_lookup",
                                         !.op = "get_agent_authorization_history_tool",
                                         !.username = username, !.limit = limit]]
    /\ UNCHANGED <<users, settings, ledger, now, nextId, eng>>

\* get_authorization_history is called with a user id
CallHistory(p, user_id, limit, status_filter) ==
    /\ procs[p].pc = "idle"
    /\ procs' = [procs EXCEPT ![p] = [IdleProc EXCEPT !.pc = "history",
                                         !.op = "get_authorization_history",
                                         !.user_id = Some(user_id), !.limit = limit,
                                         !.status_filter = status_filter]]
    /\ UNCHANGED <<users, settings, ledger, now, nextId, eng>>

\* the query of get_authorization_history
GetHistory(p) ==
    /\ procs[p].pc = "history"
    /\ \E h \in get_authorization_history(procs[p].user_id[1], procs[p].limit,
                                          procs[p].status_filter) :
           procs' = [procs EXCEPT ![p] = [@ EXCEPT !.pc = "done", !.history = h]]
    /\ UNCHANGED <<users, settings, ledger, now, nextId, eng>>

Init ==
    /\ users = {}
    /\ settings = <<>>
    /\ ledger = <<>>
    /\ now = 0
    /\ nextId = 1
    /\ procs = [p \in Procs |-> IdleProc]
    /\ eng = EngOff

Next ==
    \/ \E p \in Procs, u \in Users, a \in SpecAmounts, c \in SpecCategories :
           LedgerRoom(MaxLedger) /\ CallAuthorize(p, u, a, c)
    \/ \E p \in Procs : GetUserId(p)
    \/ \E p \in Procs : InsertUser(p)
    \/ \E p \in Procs : GetSettings(p)
    \/ \E p \in Procs : CreateDefaultSettings(p)
    \/ \E p \in Procs : ReadDailySpend(p)
    \/ \E p \in Procs : ReadWeeklySpend(p)
    \/ \E p \in Procs : ReadMonthlySpend(p)
    \/ \E p \in Procs : LogAndReturn(p)
    \/ \E p \in Procs : StorageFail(p)
    \/ \E p \in Procs : Return(p)
    \/ \E i \in 1..MaxLedger : MarkExecuted(i)

Spec == Init /\ [][Next]_vars

(* ---------------- one caller, two principals, a running clock ---------------- *)

LedgerUsers == {"alice", "bob"}

LedgerAmounts == {40, 90}

NextLedger ==
    \/ \E u \in LedgerUsers, a \in LedgerAmounts, c \in SpecCategories :
           LedgerRoom(MaxSeqLedger) /\ CallAuthorize("p1", u, a, c)
    \/ GetUserId("p1")
    \/ InsertUser("p1")
    \/ GetSettings("p1")
    \/ CreateDefaultSettings("p1")
    \/ ReadDailySpend("p1")
    \/ ReadWeeklySpend("p1")
    \/ ReadMonthlySpend("p1")
    \/ LogAndReturn("p1")
    \/ StorageFail("p1")
    \/ Return("p1")
    \/ Tick
    \/ \E i \in 1..MaxLedger : MarkExecuted(i)

SpecLedger == Init /\ [][NextLedger]_vars

(* ---------------- the settings of one principal, one call at a time ---------------- *)

SettingsUsers == {"alice", "bob"}

\* the limits a caller of set_agent_spending_limits gives
LimitArgs ==
    {NoData,
     [NoData EXCEPT !.single_transaction_limit = Some(0)],
     [NoData EXCEPT !.single_transaction_limit = Some(-5)],
     [NoData EXCEPT !.daily_limit = Some(60), !.require_approval_above = Some(60)]}

\* the partial records a caller of update_agent_settings gives
UpdateArgs ==
    {NoData,
     [NoData EXCEPT !.single_transaction_limit = Some(0)],
     [NoData EXCEPT !.blocked_categories = Some({"Gambling"}), !.is_active = Some(FALSE)]}

NextSettings ==
    \/ \E u \in SettingsUsers : CallGetSettings("p1", u)
    \/ \E u \in SettingsUsers, d \in LimitArgs : CallSetLimits("p1", u, d)
    \/ \E u \in SettingsUsers, d \in UpdateArgs : CallUpdate("p1", u, d)
    \/ GetUserId("p1")
    \/ InsertUser("p1")
    \/ GetSettings("p1")
    \/ CreateDefaultSettings("p1")
    \/ CreateSettingsFromLimits("p1")
    \/ UpdateSettings("p1")
    \/ StorageFail("p1")
    \/ Return("p1")
    \/ Tick

SpecSettings == Init /\ [][NextSettings]_vars

(* ---------------- get-or-create, one call after the other ---------------- *)

\* no other task is inside a call
Quiet(p) == \A q \in Procs \ {p} : procs[q].pc \in {"idle", "done"}

NextGetOrCreate ==
    \/ \E p \in Procs, u \in SettingsUsers : Quiet(p) /\ CallGetSettings(p, u)
    \/ \E p \in Procs : GetUserId(p)
    \/ \E p \in Procs : InsertUser(p)
    \/ \E p \in Procs : GetSettings(p)
    \/ \E p \in Procs : CreateDefaultSettings(p)
    \/ \E p \in Procs : StorageFail(p)
    \/ \E p \in Procs : Return(p)
    \/ Tick

SpecGetOrCreate == Init /\ [][NextGetOrCreate]_vars

(* ---------------- the writers of the ledger, one call at a time ---------------- *)

\* the status texts a caller of log_agent_authorization sends
LogStatuses == {"approved", "Denied", "bogus"}

NextAppend ==
    \/ \E a \in LedgerAmounts, c \in SpecCategories :
           LedgerRoom(MaxSeqLedger) /\ CallAuthorize("p1", "alice", a, c)
    \/ \E u \in LedgerUsers, a \in LedgerAmounts, st \in LogStatuses :
           LedgerRoom(MaxSeqLedger) /\ CallLog("p1", u, a, st)
    \/ GetUserId("p1")
    \/ InsertUser("p1")
    \/ GetSettings("p1")
    \/ CreateDefaultSettings("p1")
    \/ ReadDailySpend("p1")
    \/ ReadWeeklySpend("p1")
    \/ ReadMonthlySpend("p1")
    \/ LogAndReturn("p1")
    \/ LogInsert("p1")
    \/ StorageFail("p1")
    \/ Return("p1")
    \/ \E i \in 1..MaxLedger : MarkExecuted(i)

SpecAppend == Init /\ [][NextAppend]_vars

(* ---------------- the ledger and its readers, one call at a time ---------------- *)

HistoryAmounts == {40}

HistoryStatuses == {"approved", "Denied"}

HistoryLimits == {1, 2}

StatusFilters == {None, Some("APPROVED"), Some("DENIED")}

NextHistory ==
    \/ \E u \in LedgerUsers, a \in HistoryAmounts, st \in HistoryStatuses :
           LedgerRoom(MaxSeqLedger) /\ CallLog("p1", u, a, st)
    \/ \E u \in LedgerUsers, l \in HistoryLimits : CallHistoryTool("p1", u, l)
    \/ \E u \in LedgerUsers, l \in HistoryLimits, f \in StatusFilters :
           CallHistory("p1", u, l, f)
    \/ GetUserId("p1")
    \/ InsertUser("p1")
    \/ LogInsert("p1")
    \/ GetHistory("p1")
    \/ StorageFail("p1")
    \/ Return("p1")
    \/ Tick

SpecHistory == Init /\ [][NextHistory]_vars

(* ---------------- the checks run one at a time on drawn inputs ---------------- *)

EngSingles == {20, 50}

EngDailies == {60, 100}

EngApprovals == {60, 100}

EngAllowed == {None, Some({}), Some({"Food"})}

EngBlocked == {Some({}), Some({"Gambling"})}

EngCategories == {"Food", "Gambling"}

EngSpends == {0, 40, 60}

EngWeeklies == {30, 500}

EngMonthlies == {30, 2000}

EngLongSpends == {0, 600}

EngAmounts == {0, 1, 40, 50, 60, 75, 76, 90, 100, 150}

EngInit ==
    /\ users = {"alice"}
    /\ \E single \in EngSingles, daily \in EngDailies, approval \in EngApprovals,
          allowed \in EngAllowed, blocked \in EngBlocked,
          weekly \in EngWeeklies, monthly \in EngMonthlies :
          settings = << [SettingsRow(1, "alice", single, daily, weekly, monthly,
                                     approval, None, None, 0)
                           EXCEPT !.allowed_categories = allowed,
                                  !.blocked_categories = blocked] >>
    /\ ledger = <<>>
    /\ now = 0
    /\ nextId = 2
    /\ procs = [p \in Procs |-> IdleProc]
    /\ \E daily_spend \in EngSpends, amount \in EngAmounts, category \in EngCategories,
          long_spend \in EngLongSpends :
          eng = [pc |-> "blocked", s |-> settings[1], daily_spend |-> daily_spend,
                 weekly_spend |-> daily_spend + long_spend,
                 monthly_spend |-> daily_spend + long_spend,
                 amount |-> amount, category |-> category, d |-> StartDecision]

EngStep(from, to, d) ==
    /\ eng.pc = from
    /\ eng' = [eng EXCEPT !.pc = to, !.d = d]
    /\ UNCHANGED <<users, settings, ledger, now, nextId, procs>>

EngCheckBlocked == EngStep("blocked", "allowed", CheckBlocked(eng.d, eng.s, eng.category))

EngCheckAllowed == EngStep("allowed", "single", CheckAllowed(eng.d, eng.s, eng.category))

EngCheckSingle == EngStep("single", "daily", CheckSingle(eng.d, eng.s, eng.amount))

EngCheckDaily == EngStep("daily", "approval", CheckDaily(eng.d, eng.s, eng.daily_spend, eng.amount))

EngCheckApproval == EngStep("approval", "done", CheckApproval(eng.d, eng.s, eng.amount))

EngNext ==
    \/ EngCheckBlocked
    \/ EngCheckAllowed
    \/ EngCheckSingle
    \/ EngCheckDaily
    \/ EngCheckApproval

SpecEngine == EngInit /\ [][EngNext]_vars

(* ---------------- claims about the decision ---------------- *)

\* the total order APPROVED < CAUTION < REQUIRES_HUMAN_APPROVAL < DENIED
Severity(st) ==
    CASE st = "APPROVED" -> 0
      [] st = "CAUTION" -> 1
      [] st = "REQUIRES_HUMAN_APPROVAL" -> 2
      [] st = "DENIED" -> 3

SetMax(S) == CHOOSE x \in S : \A y \in S : y <= x

BlockedFires(s, category) ==
    s.blocked_categories # None /\ category \in s.blocked_categories[1]

AllowedFires(s, category) ==
    /\ s.allowed_categories # None
    /\ s.allowed_categories[1] # {}
    /\ category \notin s.allowed_categories[1]

DailyFires(s, daily_spend, amount) == daily_spend + amount > s.daily_limit

ApprovalFires(s, amount) == amount >= s.require_approval_above

\* the severities of the checks that fire on the inputs, as the design states them
FiredSeverities(s, daily_spend, amount, category) ==
    {0}
    \cup (IF BlockedFires(s, category) THEN {3} ELSE {})
    \cup (IF AllowedFires(s, category) THEN {3} ELSE {})
    \cup (IF 2 * amount > 3 * s.single_transaction_limit THEN {3}
          ELSE IF amount > s.single_transaction_limit THEN {1} ELSE {})
    \cup (IF DailyFires(s, daily_spend, amount) THEN {3} ELSE {})
    \cup (IF ApprovalFires(s, amount) THEN {2} ELSE {})

DeniedReasons == {"blocked", "not_allowed", "single_denied", "daily"}

InReasons(tag, reasons) == \E i \in 1..Len(reasons) : reasons[i] = tag

\* C1: the status the five checks end with is the maximum severity over the
\* checks that fired.
C1_MaxSeverity ==
    eng.pc = "done" =>
        Severity(eng.d.status)
            = SetMax(FiredSeverities(eng.s, eng.daily_spend, eng.amount, eng.category))

\* C2: a category in blockedCategories is DENIED for every amount.
C2_BlockedDenied ==
    (eng.pc = "done" /\ BlockedFires(eng.s, eng.category)) => eng.d.status = "DENIED"

\* C3: a category outside a non-empty allowedCategories is DENIED for every
\* amount, and an absent or empty allowedCategories never fires the check.
C3_AllowedDenied ==
    eng.pc = "done" =>
        /\ AllowedFires(eng.s, eng.category) => eng.d.status = "DENIED"
        /\ ~Truthy(eng.s.allowed_categories) => ~InReasons("not_allowed", eng.d.reasons)

\* C4: dailySpend + amount > dailyLimit is DENIED, and dailySpend + amount =
\* dailyLimit does not fire the daily check.
C4_DailyDenied ==
    eng.pc = "done" =>
        /\ DailyFires(eng.s, eng.daily_spend, eng.amount) => eng.d.status = "DENIED"
        /\ eng.daily_spend + eng.amount = eng.s.daily_limit
               => ~InReasons("daily", eng.d.reasons)

\* C5: the single-transaction check is strict on both comparisons: at the limit
\* it leaves the decision as it was, above the limit and up to 1.5 x the limit
\* (inclusive) it sets CAUTION, above 1.5 x the limit it sets DENIED.
C5_SingleStrict ==
    [][eng.pc = "single" =>
        LET a == eng.amount
            l == eng.s.single_transaction_limit
        IN  /\ a = l => eng'.d = eng.d
            /\ (a > l /\ 2 * a <= 3 * l) =>
                   /\ eng'.d.status = "CAUTION"
                   /\ eng'.d.reasons = Append(eng.d.reasons, "single_caution")
            /\ (a > l /\ 2 * a > 3 * l) =>
                   /\ eng'.d.status = "DENIED"
                   /\ eng'.d.reasons = Append(eng.d.reasons, "single_denied")]_vars

\* the single check has acted on an amount of exactly 1.5 x the limit
C5_Witness ==
    /\ eng.pc = "daily"
    /\ 2 * eng.amount = 3 * eng.s.single_transaction_limit
    /\ eng.d.status = "CAUTION"
    /\ eng.d.reasons # <<>>
    /\ eng.d.reasons[Len(eng.d.reasons)] = "single_caution"

\* C6: the approval check fires exactly when amount >= requireApprovalAbove;
\* when it fires and no DENIED-level check fired the status is
\* REQUIRES_HUMAN_APPROVAL, and below the threshold it leaves the decision as
\* it was.
C6_ApprovalInclusive ==
    [][eng.pc = "approval" =>
        IF eng.amount >= eng.s.require_approval_above
        THEN /\ eng'.d.reasons = Append(eng.d.reasons, "approval")
             /\ (\A i \in 1..Len(eng.d.reasons) : eng.d.reasons[i] \notin DeniedReasons)
                    => eng'.d.status = "REQUIRES_HUMAN_APPROVAL"
        ELSE eng'.d = eng.d]_vars

\* the approval check has acted on an amount exactly at the threshold, with no
\* DENIED-level check fired
C6_Witness ==
    /\ eng.pc = "done"
    /\ eng.amount = eng.s.require_approval_above
    /\ eng.d.status = "REQUIRES_HUMAN_APPROVAL"
    /\ \A i \in 1..Len(eng.d.reasons) : eng.d.reasons[i] \notin DeniedReasons

(* ---------------- claims about the ledger ---------------- *)

Periods == {"daily", "weekly", "monthly"}

\* a decision is returned in this step by call p
Decides(p) ==
    /\ procs[p].pc # "done"
    /\ procs'[p].pc = "done"
    /\ procs'[p].status # "ERROR"

\* C7: a call that returns a decision appends exactly one record in the step
\* that returns it, carrying the principal, amount, category and status of the
\* decision; no other step of a call adds or removes a record.
C7_OneRecordPerDecision ==
    [][/\ (\A p \in Procs : ~Decides(p)) => Len(ledger') = Len(ledger)
       /\ \A p \in Procs : Decides(p) =>
              /\ Len(ledger') = Len(ledger) + 1
              /\ SubSeq(ledger', 1, Len(ledger)) = ledger
              /\ LET r == ledger'[Len(ledger')]
                 IN  /\ r.user_id = procs'[p].username
                     /\ r.amount = procs'[p].amount
                     /\ r.category = procs'[p].category
                     /\ r.status = procs'[p].status]_vars

\* a call has returned a decision other than APPROVED and its record is the
\* newest of the ledger, after an APPROVED one
C7_Witness ==
    \E p \in Procs :
        /\ procs[p].pc = "done"
        /\ procs[p].status \in {"CAUTION", "REQUIRES_HUMAN_APPROVAL", "DENIED"}
        /\ Len(ledger) >= 2
        /\ ledger[Len(ledger)].status = procs[p].status
        /\ ledger[Len(ledger)].amount = procs[p].amount
        /\ \E i \in 1..Len(ledger) : ledger[i].status = "APPROVED"

\* the records the design counts: of the principal, APPROVED, executed, and
\* created within the trailing days of the window
CountedIndexes(rows, user_id, days, t) ==
    {i \in 1..Len(rows) :
        /\ rows[i].user_id = user_id
        /\ rows[i].status = "APPROVED"
        /\ rows[i].was_executed
        /\ t - rows[i].created_at <= days}

RECURSIVE SumAmounts(_, _)
SumAmounts(rows, S) ==
    IF S = {} THEN 0
    ELSE LET i == CHOOSE x \in S : TRUE
         IN  rows[i].amount + SumAmounts(rows, S \ {i})

WindowDays(period) ==
    IF period = "weekly" THEN 7 ELSE IF period = "monthly" THEN 30 ELSE 1

ExpectedSpend(rows, user_id, period, t) ==
    SumAmounts(rows, CountedIndexes(rows, user_id, WindowDays(period), t))

\* C8: the cumulative spend of a principal over a window is the sum of the
\* amounts of its APPROVED and executed records inside the window, the spend
\* queries of a call read that value, and appending a record that is not both
\* APPROVED and executed changes no cumulative spend.
C8_CumulativeSpend ==
    /\ [](\A u \in LedgerUsers, period \in Periods :
            get_cumulative_agent_spend(u, period) = ExpectedSpend(ledger, u, period, now))
    /\ [][/\ \A p \in Procs :
                /\ (procs[p].pc = "spend_daily" /\ procs'[p].pc = "spend_weekly") =>
                       procs'[p].daily_spend
                           = ExpectedSpend(ledger, procs[p].user_id[1], "daily", now)
                /\ (procs[p].pc = "spend_weekly" /\ procs'[p].pc = "spend_monthly") =>
                       procs'[p].weekly_spend
                           = ExpectedSpend(ledger, procs[p].user_id[1], "weekly", now)
          /\ (/\ Len(ledger') = Len(ledger) + 1
              /\ ~(ledger'[Len(ledger')].status = "APPROVED"
                   /\ ledger'[Len(ledger')].was_executed)) =>
                 \A u \in LedgerUsers, period \in Periods :
                     SumCounted(ledger', u, period, now')
                         = SumCounted(ledger, u, period, now)]_vars

\* a principal's executed record of 40 has left the daily window and is still
\* in the weekly one, and a DENIED record of 90 has been appended for it since
C8_Witness ==
    /\ Len(ledger) = 2
    /\ ledger[1].user_id = "alice" /\ ledger[1].was_executed
    /\ ledger[2].user_id = "alice" /\ ledger[2].status = "DENIED" /\ ledger[2].amount = 90
    /\ get_cumulative_agent_spend("alice", "daily") = 0
    /\ get_cumulative_agent_spend("alice", "weekly") = 40
    /\ get_cumulative_agent_spend("bob", "weekly") = 0

\* C9: no lock is held from the spend read to the append: while one call for a
\* principal is between its daily read and its append, the daily read of
\* another call for the same principal can run.
C9_NoLock ==
    \A p \in Procs, q \in Procs :
        (/\ p # q
         /\ procs[p].pc \in {"spend_weekly", "spend_monthly", "log"}
         /\ procs[q].pc = "spend_daily"
         /\ procs[q].user_id = procs[p].user_id)
            => ENABLED ReadDailySpend(q)

\* two calls for one principal made their daily read before either appended,
\* read the same daily spend, both are APPROVED and logged, and the spend read
\* plus their two amounts exceeds the daily limit
C9_Witness ==
    /\ procs["p1"].pc = "done" /\ procs["p2"].pc = "done"
    /\ procs["p1"].username = procs["p2"].username
    /\ procs["p1"].status = "APPROVED" /\ procs["p2"].status = "APPROVED"
    /\ procs["p1"].daily_spend = procs["p2"].daily_spend
    /\ procs["p1"].rows_seen = procs["p2"].rows_seen
    /\ Len(ledger) = procs["p1"].rows_seen + 2
    /\ procs["p1"].settings = procs["p2"].settings
    /\ procs["p1"].daily_spend + procs["p1"].amount + procs["p2"].amount
           > procs["p1"].settings[1].daily_limit
    /\ Len(ledger) >= 2
    /\ ledger[Len(ledger)].status = "APPROVED"
    /\ ledger[Len(ledger) - 1].status = "APPROVED"

\* C10: for a principal with no earlier record, an APPROVED call of amount a
\* reports a remaining daily allowance of dailyLimit - a.
C10_RemainingAfter ==
    \A p \in Procs :
        (/\ procs[p].pc = "done"
         /\ procs[p].op = "authorize_purchase"
         /\ procs[p].status = "APPROVED"
         /\ Len(RowsOf(ledger, procs[p].username)) = 1)
            => procs[p].remaining_daily = procs[p].settings[1].daily_limit - procs[p].amount

(* ---------------- claims about concurrent calls and failures ---------------- *)

\* C13: there is at most one settings row per principal, also when first calls
\* for one principal run concurrently.
C13_OneRowPerPrincipal ==
    \A u \in Users : Len(RowsOf(settings, u)) <= 1

\* C16: a step of authorize_purchase either goes on to a later storage call,
\* or returns a decision whose record it has appended, or (a storage call has
\* failed) returns status ERROR with the failure's message and appends
\* nothing; it never leaves the handler in any other way.
C16_FailureIsError ==
    [][\A p \in Procs :
          (procs[p].op = "authorize_purchase" /\ procs[p].pc \in StoragePcs
             /\ procs'[p] # procs[p]) =>
              \/ procs'[p].pc \in StoragePcs /\ procs'[p].status = "none"
              \/ /\ procs'[p].pc = "done"
                 /\ procs[p].pc = "log"
                 /\ Len(ledger') = Len(ledger) + 1
                 /\ procs'[p].status \in Statuses \ {"ERROR"}
                 /\ procs'[p].error = None
              \/ /\ procs'[p].pc = "done"
                 /\ ledger' = ledger
                 /\ procs'[p].status = "ERROR"
                 /\ procs'[p].error = Some(procs[p].pc)
                 /\ procs'[p].reasons = <<>>]_vars

\* the ledger append of a call has failed after its settings row was created
C16_Witness ==
    \E p \in Procs :
        /\ procs[p].pc = "done"
        /\ procs[p].status = "ERROR"
        /\ procs[p].error = Some("log")
        /\ ledger = <<>>
        /\ settings # <<>>

\* the place of a storage call in authorize_purchase
Rank(pc) ==
    CASE pc = "idle" -> 0
      [] pc = "user_lookup" -> 1
      [] pc = "user_insert" -> 2
      [] pc = "settings_get" -> 3
      [] pc = "settings_insert" -> 4
      [] pc = "spend_daily" -> 5
      [] pc = "spend_weekly" -> 6
      [] pc = "spend_monthly" -> 7
      [] pc = "log" -> 8
      [] OTHER -> 9

\* C17: a successful call appends one new record with an id no earlier record
\* has, also when a record with the same arguments is already there; and a call
\* only moves forward through its storage calls, so none is attempted twice.
C17_NotIdempotentNoRetry ==
    /\ [](\A i \in 1..Len(ledger), j \in 1..Len(ledger) :
             ledger[i].id = ledger[j].id => i = j)
    /\ [][\A p \in Procs :
             /\ (procs[p].pc \in StoragePcs /\ procs'[p] # procs[p]) =>
                    Rank(procs'[p].pc) > Rank(procs[p].pc)
             /\ Decides(p) =>
                    /\ Len(ledger') = Len(ledger) + 1
                    /\ SubSeq(ledger', 1, Len(ledger)) = ledger
                    /\ \A i \in 1..Len(ledger) :
                           ledger[i].id # ledger'[Len(ledger')].id]_vars

\* two successful calls with identical arguments have left two records that
\* differ in their id alone
C17_Witness ==
    \E i \in 1..Len(ledger), j \in 1..Len(ledger) :
        /\ i # j
        /\ ledger[i].id # ledger[j].id
        /\ [ledger[i] EXCEPT !.id = 0] = [ledger[j] EXCEPT !.id = 0]

(* ---------------- one principal, amounts of either sign, a running clock ---------------- *)

WindowAmounts == {40, -40}

NextWindow ==
    \/ \E a \in WindowAmounts, c \in SpecCategories :
           LedgerRoom(MaxSeqLedger) /\ CallAuthorize("p1", "alice", a, c)
    \/ GetUserId("p1")
    \/ InsertUser("p1")
    \/ GetSettings("p1")
    \/ CreateDefaultSettings("p1")
    \/ ReadDailySpend("p1")
    \/ ReadWeeklySpend("p1")
    \/ ReadMonthlySpend("p1")
    \/ LogAndReturn("p1")
    \/ StorageFail("p1")
    \/ Return("p1")
    \/ Tick
    \/ \E i \in 1..MaxLedger : MarkExecuted(i)

SpecWindow == Init /\ [][NextWindow]_vars

(* ---------------- decisions under category lists, one call at a time ---------------- *)

ReasonAmounts == {40, 60, 100}

ReasonCategories == {"Food", "Gambling"}

\* the category lists a caller of update_agent_settings gives
CategoryArgs ==
    {[NoData EXCEPT !.blocked_categories = Some({"Gambling"})],
     [NoData EXCEPT !.allowed_categories = Some({"Food"})]}

NextReasons ==
    \/ \E a \in ReasonAmounts, c \in ReasonCategories :
           LedgerRoom(MaxSeqLedger) /\ CallAuthorize("p1", "alice", a, c)
    \/ \E d \in CategoryArgs : CallUpdate("p1", "alice", d)
    \/ GetUserId("p1")
    \/ InsertUser("p1")
    \/ GetSettings("p1")
    \/ CreateDefaultSettings("p1")
    \/ UpdateSettings("p1")
    \/ ReadDailySpend("p1")
    \/ ReadWeeklySpend("p1")
    \/ ReadMonthlySpend("p1")
    \/ LogAndReturn("p1")
    \/ StorageFail("p1")
    \/ Return("p1")
    \/ \E i \in 1..MaxLedger : MarkExecuted(i)

SpecReasons == Init /\ [][NextReasons]_vars

(* ---------------- two callers whose storage calls return or fail ---------------- *)

FairAmounts == {40, 100}

\* the next storage call of task p returns
Proceed(p) ==
    \/ GetUserId(p)
    \/ InsertUser(p)
    \/ GetSettings(p)
    \/ CreateDefaultSettings(p)
    \/ ReadDailySpend(p)
    \/ ReadWeeklySpend(p)
    \/ ReadMonthlySpend(p)
    \/ LogAndReturn(p)

NextFair ==
    \/ \E p \in Procs, a \in FairAmounts, c \in SpecCategories :
           LedgerRoom(MaxSeqLedger) /\ CallAuthorize(p, "alice", a, c)
    \/ \E p \in Procs : Proceed(p)
    \/ \E p \in Procs : StorageFail(p)
    \/ \E p \in Procs : Return(p)

\* the code of a call runs on: its pending storage call returns or fails
SpecFair ==
    /\ Init
    /\ [][NextFair]_vars
    /\ \A p \in Procs : WF_vars(Proceed(p) \/ StorageFail(p))

(* ---------------- the operations of the module alone ---------------- *)

CodeAmounts == {40, 100}

\* the limits a caller of set_agent_spending_limits gives
CodeLimits == {[NoData EXCEPT !.daily_limit = Some(60), !.require_approval_above = Some(60)]}

NextCode ==
    \/ \E a \in CodeAmounts, c \in SpecCategories :
           LedgerRoom(MaxSeqLedger) /\ CallAuthorize("p1", "alice", a, c)
    \/ \E a \in CodeAmounts :
           LedgerRoom(MaxSeqLedger) /\ CallLog("p1", "alice", a, "approved")
    \/ \E d \in CodeLimits : CallSetLimits("p1", "alice", d)
    \/ GetUserId("p1")
    \/ InsertUser("p1")
    \/ GetSettings("p1")
    \/ CreateDefaultSettings("p1")
    \/ CreateSettingsFromLimits("p1")
    \/ UpdateSettings("p1")
    \/ ReadDailySpend("p1")
    \/ ReadWeeklySpend("p1")
    \/ ReadMonthlySpend("p1")
    \/ LogAndReturn("p1")
    \/ LogInsert("p1")
    \/ StorageFail("p1")
    \/ Return("p1")
    \/ Tick

SpecCode == Init /\ [][NextCode]_vars

(* ---------------- two principals, every operation, one call at a time ---------------- *)

IsolationAmounts == {40}

\* the partial record a caller of update_agent_settings gives
BlockGambling == [NoData EXCEPT !.blocked_categories = Some({"Gambling"})]

NextIsolation ==
    \/ \E u \in LedgerUsers, a \in IsolationAmounts, c \in SpecCategories :
           LedgerRoom(MaxSeqLedger) /\ CallAuthorize("p1", u, a, c)
    \/ \E a \in IsolationAmounts :
           LedgerRoom(MaxSeqLedger) /\ CallLog("p1", "bob", a, "approved")
    \/ \E u \in LedgerUsers, d \in CodeLimits : CallSetLimits("p1", u, d)
    \/ CallUpdate("p1", "bob", BlockGambling)
    \/ GetUserId("p1")
    \/ InsertUser("p1")
    \/ GetSettings("p1")
    \/ CreateDefaultSettings("p1")
    \/ CreateSettingsFromLimits("p1")
    \/ UpdateSettings("p1")
    \/ ReadDailySpend("p1")
    \/ ReadWeeklySpend("p1")
    \/ ReadMonthlySpend("p1")
    \/ LogAndReturn("p1")
    \/ LogInsert("p1")
    \/ StorageFail("p1")
    \/ Return("p1")
    \/ \E i \in 1..MaxLedger : MarkExecuted(i)

SpecIsolation == Init /\ [][NextIsolation]_vars

(* ---------------- settings that are switched off, one call at a time ---------------- *)

\* the partial record that switches settings off
SwitchOff == [NoData EXCEPT !.is_active = Some(FALSE)]

NextActive ==
    \/ \E a \in CodeAmounts, c \in SpecCategories :
           LedgerRoom(MaxSeqLedger) /\ CallAuthorize("p1", "alice", a, c)
    \/ \E u \in LedgerUsers, d \in CodeLimits : CallSetLimits("p1", u, d)
    \/ \E u \in LedgerUsers : CallGetSettings("p1", u)
    \/ CallUpdate("p1", "alice", SwitchOff)
    \/ GetUserId("p1")
    \/ InsertUser("p1")
    \/ GetSettings("p1")
    \/ CreateDefaultSettings("p1")
    \/ CreateSettingsFromLimits("p1")
    \/ UpdateSettings("p1")
    \/ ReadDailySpend("p1")
    \/ ReadWeeklySpend("p1")
    \/ ReadMonthlySpend("p1")
    \/ LogAndReturn("p1")
    \/ StorageFail("p1")
    \/ Return("p1")

SpecActive == Init /\ [][NextActive]_vars

(* ---------------- the risk assessor ---------------- *)

\* the members of RiskLevel
RiskLevels == {"LOW", "MEDIUM", "HIGH", "CRITICAL"}

\* a mutant: the lower bracket adds to the higher one
IncomeScoreBoth(amount, monthly_income) ==
    IF monthly_income > 0
    THEN (IF 2 * amount > monthly_income THEN 50 ELSE 0)
         + (IF 10 * amount > monthly_income THEN 20 ELSE 0)
    ELSE 0

\* the income bracket of assess_purchase_risk; with monthly_income > 0 the
\* tests amount / monthly_income > 0.5 and > 0.1 are 2 * amount > monthly_income
\* and 10 * amount > monthly_income
IncomeScore(amount, monthly_income) ==
    IF monthly_income > 0
    THEN IF 2 * amount > monthly_income THEN 50
         ELSE IF 10 * amount > monthly_income THEN 20
         ELSE 0
    ELSE 0

\* if not is_essential: risk_score += 10
EssentialScore(is_essential) == IF ~is_essential THEN 10 ELSE 0

\* the level of a score
LevelOf(risk_score) ==
    IF risk_score > 70 THEN "CRITICAL"
    ELSE IF risk_score > 50 THEN "HIGH"
    ELSE IF risk_score > 20 THEN "MEDIUM"
    ELSE "LOW"

RiskAmounts == {-100, 0, 10, 11, 50, 51, 100}

RiskIncomes == {-100, 0, 20, 100}

RiskInit ==
    /\ users = {}
    /\ settings = <<>>
    /\ ledger = <<>>
    /\ now = 0
    /\ nextId = 1
    /\ procs = [p \in Procs |-> IdleProc]
    /\ \E amount \in RiskAmounts, monthly_income \in RiskIncomes, is_essential \in BOOLEAN :
          eng = [pc |-> "income", amount |-> amount, monthly_income |-> monthly_income,
                 is_essential |-> is_essential, risk_score |-> 0, risk_level |-> "LOW"]

RiskIncome ==
    /\ eng.pc = "income"
    /\ eng' = [eng EXCEPT !.pc = "essential",
                          !.risk_score = @ + IncomeScore(eng.amount, eng.monthly_income)]
    /\ UNCHANGED <<users, settings, ledger, now, nextId, procs>>

RiskEssential ==
    /\ eng.pc = "essential"
    /\ eng' = [eng EXCEPT !.pc = "level",
                          !.risk_score = @ + EssentialScore(eng.is_essential)]
    /\ UNCHANGED <<users, settings, ledger, now, nextId, procs>>

RiskLevel ==
    /\ eng.pc = "level"
    /\ eng' = [eng EXCEPT !.pc = "assessed", !.risk_level = LevelOf(eng.risk_score)]
    /\ UNCHANGED <<users, settings, ledger, now, nextId, procs>>

RiskNext ==
    \/ RiskIncome
    \/ RiskEssential
    \/ RiskLevel

SpecRisk == RiskInit /\ [][RiskNext]_vars

(* ---------------- claims about what the decision reads ---------------- *)

\* the settings with the weekly and monthly limits put to fixed values
WithoutLongLimits(s) == [s EXCEPT !.weekly_limit = 0, !.monthly_limit = 0]

\* C19: the status and reasons are those of the same call with the weekly and
\* monthly limits replaced by fixed values and no weekly or monthly spend
\* given, so they depend on neither.
C19_LongWindowsIgnored ==
    eng.pc = "done" =>
        eng.d = Decide(WithoutLongLimits(eng.s), eng.daily_spend, eng.amount, eng.category)

\* a call is APPROVED although its amount exceeds the weekly and monthly limits
\* and the weekly and monthly spend are past them
C19_Witness ==
    /\ eng.pc = "done"
    /\ eng.d.status = "APPROVED"
    /\ eng.amount > eng.s.weekly_limit
    /\ eng.amount > eng.s.monthly_limit
    /\ eng.weekly_spend > eng.s.weekly_limit
    /\ eng.monthly_spend > eng.s.monthly_limit

(* ---------------- claims about the ledger ---------------- *)

\* C11: no step removes a record or changes a field of one, except was_executed
\* going from FALSE to TRUE on an APPROVED record; every record a step appends
\* has was_executed FALSE.
C11_AppendOnly ==
    [][/\ Len(ledger') >= Len(ledger)
       /\ \A i \in 1..Len(ledger) :
              \/ ledger'[i] = ledger[i]
              \/ /\ ledger[i].status = "APPROVED"
                 /\ ledger[i].was_executed = FALSE
                 /\ ledger'[i] = [ledger[i] EXCEPT !.was_executed = TRUE]
       /\ \A i \in (Len(ledger) + 1)..Len(ledger') :
              ledger'[i].was_executed = FALSE]_vars

\* an executed APPROVED record is followed by a later record that is neither
C11_Witness ==
    /\ Len(ledger) = 2
    /\ ledger[1].status = "APPROVED"
    /\ ledger[1].was_executed = TRUE
    /\ ledger[2].status # "APPROVED"
    /\ ledger[2].was_executed = FALSE

\* the step in which task p gets the result of the history query
ReadsHistory(p) ==
    /\ procs[p].pc = "history"
    /\ procs'[p].pc = "done"
    /\ procs'[p].error = None

\* C18: the history query returns at most limit records, each a record of the
\* principal that has the status asked for, newest first, none twice, as many
\* as the limit allows, and none older than a matching record left out; the
\* ledger is unchanged.
C18_HistoryNewestFirst ==
    [][\A p \in Procs : ReadsHistory(p) =>
          LET h == procs'[p].history
              lim == procs[p].limit
              f == procs[p].status_filter
              Match(r) == /\ r.user_id = procs[p].user_id[1]
                          /\ f # None => r.status = f[1]
              matching == {i \in 1..Len(ledger) : Match(ledger[i])}
          IN  /\ Len(h) <= lim
              /\ \A k \in 1..Len(h) : Match(h[k]) /\ \E i \in 1..Len(ledger) : ledger[i] = h[k]
              /\ \A k, m \in 1..Len(h) :
                     k < m => h[k].created_at >= h[m].created_at /\ h[k].id # h[m].id
              /\ Len(h) = Min(lim, Cardinality(matching))
              /\ \A i \in matching :
                     (\A k \in 1..Len(h) : h[k] # ledger[i]) =>
                         \A k \in 1..Len(h) : ledger[i].created_at <= h[k].created_at
              /\ ledger' = ledger]_vars

\* a query for one APPROVED record has returned the older of two records of
\* the principal, the newer one being DENIED
C18_Witness ==
    \E p \in Procs :
        /\ procs[p].pc = "done"
        /\ procs[p].op = "get_authorization_history"
        /\ procs[p].limit = 1
        /\ procs[p].status_filter = Some("APPROVED")
        /\ Len(ledger) = 2
        /\ ledger[1].user_id = procs[p].user_id[1]
        /\ ledger[2].user_id = procs[p].user_id[1]
        /\ ledger[2].status = "DENIED"
        /\ ledger[2].created_at > ledger[1].created_at
        /\ procs[p].history = <<ledger[1]>>

(* ---------------- claims about the settings ---------------- *)

\* task p holds the settings get_agent_settings_tool returned
GotSettings(p) ==
    /\ procs[p].pc = "done"
    /\ procs[p].op = "get_agent_settings_tool"
    /\ procs[p].error = None

\* C12: calls of get-or-create made one after the other for one principal
\* return settings of one id; a call made when the principal has a row returns
\* that row, inserts none and leaves the stored settings as they were.
C12_GetOrCreateIdempotent ==
    /\ [](\A p, q \in Procs :
            (GotSettings(p) /\ GotSettings(q) /\ procs[p].username = procs[q].username)
                => procs[p].settings[1].id = procs[q].settings[1].id)
    /\ [][\A p \in Procs :
            (/\ procs[p].op = "get_agent_settings_tool"
             /\ procs'[p] # procs[p]
             /\ RowsOf(settings, procs[p].username) # <<>>)
                => /\ settings' = settings
                   /\ GotSettings(p)' =>
                          procs'[p].settings = Some(RowsOf(settings, procs[p].username)[1])]_vars

\* two calls for one principal, the second made after the first had returned
\* and time had passed, hold the same row
C12_Witness ==
    /\ GotSettings("p1")
    /\ GotSettings("p2")
    /\ procs["p1"].username = procs["p2"].username
    /\ procs["p1"].settings = procs["p2"].settings
    /\ procs["p1"].settings[1].created_at < now
    /\ Len(RowsOf(settings, procs["p1"].username)) = 1
    /\ \E u \in SettingsUsers : u # procs["p1"].username /\ RowsOf(settings, u) # <<>>

\* the step in which update_agent_settings writes
Updates(p) ==
    /\ procs[p].pc = "settings_update"
    /\ procs'[p].pc = "done"
    /\ procs'[p].error = None

\* C14: an update gives every supplied field of the principal's row the
\* supplied value and updated_at the time of the call, and leaves the other
\* fields of the row, the other rows and the number of rows as they were.
C14_UpdateFrame ==
    [][\A p \in Procs : Updates(p) =>
          LET data == procs[p].data
          IN  /\ Len(settings') = Len(settings)
              /\ \A i \in 1..Len(settings) :
                     LET old == settings[i]
                         new == settings'[i]
                     IN  IF old.user_id # procs[p].user_id[1] THEN new = old
                         ELSE /\ DOMAIN new = DOMAIN old
                              /\ \A f \in LimitFields \cup {"is_active"} :
                                     new[f] = IF data[f] # None THEN data[f][1] ELSE old[f]
                              /\ \A f \in {"allowed_categories", "blocked_categories"} :
                                     new[f] = IF data[f] # None THEN data[f] ELSE old[f]
                              /\ \A f \in {"id", "user_id", "created_at"} : new[f] = old[f]
                              /\ new.updated_at = now]_vars

\* an update that supplied only a single-transaction limit of 0 has stored it
\* on a row whose category list and active flag an earlier update had set
C14_Witness ==
    \E p \in Procs :
        /\ procs[p].pc = "done"
        /\ procs[p].op = "update_agent_settings"
        /\ procs[p].data = [NoData EXCEPT !.single_transaction_limit = Some(0)]
        /\ procs[p].result # None
        /\ procs[p].result[1].single_transaction_limit = 0
        /\ procs[p].result[1].daily_limit = DefaultDaily
        /\ procs[p].result[1].blocked_categories = Some({"Gambling"})
        /\ procs[p].result[1].is_active = FALSE
        /\ procs[p].result[1].updated_at > procs[p].result[1].created_at
        /\ RowsOf(settings, procs[p].user_id[1]) = <<procs[p].result[1]>>

\* the principal a settings call is for
Principal(c) == IF c.op = "update_agent_settings" THEN c.user_id[1] ELSE c.username

\* a step of a settings update, by the helper or by the tool, for a principal
\* that has no row
StepsWithoutRow(p, ops) ==
    /\ procs[p].op \in ops
    /\ procs'[p] # procs[p]
    /\ procs[p].pc # "done"
    /\ RowsOf(settings, Principal(procs[p])) = <<>>

C20_LimitsNonNegative ==
    \A i \in 1..Len(settings) : \A f \in LimitFields : settings[i][f] >= 0

(* ---------------- claims about the logging entry point ---------------- *)

\* the step in which log_agent_authorization inserts its record
Logs(p) ==
    /\ procs[p].pc = "log_insert"
    /\ procs'[p].pc = "done"
    /\ procs'[p].error = None

\* status texts and the wire value they spell when case is ignored
Spells ==
    {<<"approved", "APPROVED">>, <<"Denied", "DENIED">>} \cup {<<w, w>> : w \in Statuses}

\* C21 as stated: a status text that is not, letter for letter, a wire value is
\* recorded as ERROR, the call reports success, and every record of the ledger
\* has one of the five wire values.
C21_ExactOrError ==
    /\ [](\A i \in 1..Len(ledger) : ledger[i].status \in Statuses)
    /\ [][\A p \in Procs : Logs(p) =>
            /\ Len(ledger') = Len(ledger) + 1
            /\ procs'[p].result = Some(ledger'[Len(ledger')])
            /\ procs[p].status \notin Statuses => ledger'[Len(ledger')].status = "ERROR"]_vars

\* C21 amended: a status text is recorded as the wire value it spells when case
\* is ignored, and as ERROR when it spells none; the call reports success, and
\* every record of the ledger has one of the five wire values.
C21_UpperOrError ==
    /\ [](\A i \in 1..Len(ledger) : ledger[i].status \in Statuses)
    /\ [][\A p \in Procs : Logs(p) =>
            /\ Len(ledger') = Len(ledger) + 1
            /\ procs'[p].result = Some(ledger'[Len(ledger')])
            /\ \A w \in Statuses :
                   <<procs[p].status, w>> \in Spells => ledger'[Len(ledger')].status = w
            /\ (\A w \in Statuses : <<procs[p].status, w>> \notin Spells) =>
                   ledger'[Len(ledger')].status = "ERROR"]_vars

\* the text "approved" has been recorded as APPROVED, after a text that spells
\* no wire value had been recorded as ERROR
C21_Witness ==
    \E p \in Procs :
        /\ procs[p].pc = "done"
        /\ procs[p].op = "log_agent_authorization"
        /\ procs[p].status = "approved"
        /\ Len(ledger) = 2
        /\ ledger[1].status = "ERROR"
        /\ ledger[2].status = "APPROVED"
        /\ procs[p].result = Some(ledger[2])

(* ---------------- claims about the risk assessor ---------------- *)

\* amount / monthly_income > num / den, false when monthly_income is 0
RatioAbove(amount, monthly_income, num, den) ==
    \/ monthly_income > 0 /\ den * amount > num * monthly_income
    \/ monthly_income < 0 /\ den * amount < num * monthly_income

\* the level the design gives a score
DesignLevel(score) ==
    CASE score > 70 -> "CRITICAL"
      [] score <= 70 /\ score > 50 -> "HIGH"
      [] score <= 50 /\ score > 20 -> "MEDIUM"
      [] OTHER -> "LOW"

\* no step of an assessment changes a table
AssessmentStoresNothing ==
    [][eng' # eng => UNCHANGED <<users, settings, ledger, nextId>>]_vars

\* C22 as stated: the score is 50 when amount / monthlyIncome > 0.5, else 20
\* when it is > 0.1, plus 10 when the purchase is not essential; the level
\* follows the score; the score is in 0..100; nothing stored changes.
C22_ScoreByRatio ==
    /\ [](eng.pc = "assessed" =>
            /\ eng.risk_score =
                   (IF RatioAbove(eng.amount, eng.monthly_income, 1, 2) THEN 50
                    ELSE IF RatioAbove(eng.amount, eng.monthly_income, 1, 10) THEN 20
                    ELSE 0)
                   + (IF eng.is_essential THEN 0 ELSE 10)
            /\ eng.risk_level = DesignLevel(eng.risk_score)
            /\ eng.risk_score \in 0..100)
    /\ AssessmentStoresNothing

\* C22 amended: the income brackets apply only when monthlyIncome > 0; with
\* monthlyIncome <= 0 the score is the non-essential 10 alone.
C22_ScoreByRatioOfPositiveIncome ==
    /\ [](eng.pc = "assessed" =>
            /\ eng.risk_score =
                   (IF eng.monthly_income > 0
                       /\ RatioAbove(eng.amount, eng.monthly_income, 1, 2) THEN 50
                    ELSE IF eng.monthly_income > 0
                            /\ RatioAbove(eng.amount, eng.monthly_income, 1, 10) THEN 20
                    ELSE 0)
                   + (IF eng.is_essential THEN 0 ELSE 10)
            /\ eng.risk_level = DesignLevel(eng.risk_score)
            /\ eng.risk_score \in 0..100)
    /\ [][eng' # eng => UNCHANGED <<users, settings, ledger, nextId>>]_vars

\* a non-essential purchase of more than half the income is assessed 60, HIGH
C22_Witness ==
    /\ eng.pc = "assessed"
    /\ eng.monthly_income > 0
    /\ 2 * eng.amount > eng.monthly_income
    /\ ~eng.is_essential
    /\ eng.risk_score = 60
    /\ eng.risk_level = "HIGH"

(* ---------------- claims about the rolling window ---------------- *)

\* the period names a caller can send, one of them unknown
PeriodNames == Periods \cup {"yearly"}

\* the spend of every principal and period name is the sum of its APPROVED and
\* executed records no older than 1, 7 or 30 days, an unknown name counting as
\* daily
SpendIsRolling ==
    \A u \in Users, period \in PeriodNames :
        get_cumulative_agent_spend(u, period) = ExpectedSpend(ledger, u, period, now)

FiredReasons(s, daily_spend, amount, category) ==
    (IF BlockedFires(s, category) THEN <<"blocked">> ELSE <<>>)
    \o (IF AllowedFires(s, category) THEN <<"not_allowed">> ELSE <<>>)
    \o (IF 2 * amount > 3 * s.single_transaction_limit THEN <<"single_denied">>
        ELSE IF amount > s.single_transaction_limit THEN <<"single_caution">> ELSE <<>>)
    \o (IF DailyFires(s, daily_spend, amount) THEN <<"daily">> ELSE <<>>)
    \o (IF ApprovalFires(s, amount) THEN <<"approval">> ELSE <<>>)

\* C24: a decision is APPROVED exactly when no check fired, and exactly when
\* its reasons are empty; the reasons are those of the fired checks in check
\* order, and the record logs them, or the within-budget text when there are none.
C24_ApprovedIffNoReason ==
    [][\A p \in Procs : (procs[p].pc = "log" /\ Decides(p)) =>
          LET fired == FiredReasons(procs[p].settings[1], procs[p].daily_spend,
                                    procs[p].amount, procs[p].category)
              r == ledger'[Len(ledger')]
          IN  /\ (procs'[p].status = "APPROVED") <=> (fired = <<>>)
              /\ procs'[p].reasons = fired
              /\ Len(ledger') = Len(ledger) + 1
              /\ r.reason = IF fired = <<>> THEN <<"within_budget">> ELSE fired]_vars

\* an APPROVED decision has been logged with the within-budget text after a
\* decision with three reasons had been logged with them
C24_Witness ==
    \E p \in Procs :
        /\ procs[p].pc = "done"
        /\ procs[p].status = "APPROVED"
        /\ procs[p].reasons = <<>>
        /\ Len(ledger) = 2
        /\ Len(ledger[1].reason) = 3
        /\ ledger[1].status # "APPROVED"
        /\ ledger[2].reason = <<"within_budget">>
        /\ ledger[2].status = "APPROVED"

(* ---------------- claims about termination ---------------- *)

\* task p is inside a call of authorize_purchase
InCall(p) == procs[p].op = "authorize_purchase" /\ procs[p].pc \in StoragePcs

\* C25: every call of authorize_purchase returns a response; until then its
\* next storage call can always return, whatever the other caller is doing, and
\* each storage call that returns or fails takes the call to a later step.
C25_CallsTerminate ==
    /\ \A p \in Procs : InCall(p) ~> (procs[p].pc = "done")
    /\ [](\A p \in Procs : InCall(p) => ENABLED Proceed(p))
    /\ [][\A p \in Procs :
            (InCall(p) /\ procs'[p] # procs[p]) => Rank(procs'[p].pc) > Rank(procs[p].pc)]_vars

\* both callers have their responses, one of them after a failed storage call
C25_Witness ==
    /\ procs["p1"].pc = "done"
    /\ procs["p2"].pc = "done"
    /\ procs["p1"].status \in Statuses \ {"ERROR"}
    /\ procs["p2"].status = "ERROR"
    /\ Len(ledger) = 2

(* ---------------- claims about the module's operations alone ---------------- *)

\* C26: through the operations of the module alone no record is ever executed
\* and every cumulative spend is 0, so a decision has the daily reason exactly
\* when its own amount exceeds the daily limit.
C26_NothingExecuted ==
    /\ [](/\ \A i \in 1..Len(ledger) : ledger[i].was_executed = FALSE
          /\ \A u \in Users, period \in Periods : get_cumulative_agent_spend(u, period) = 0)
    /\ [][\A p \in Procs : (procs[p].pc = "log" /\ Decides(p)) =>
            /\ procs[p].daily_spend = 0
            /\ InReasons("daily", procs'[p].reasons)
                   <=> procs[p].amount > procs[p].settings[1].daily_limit]_vars

\* with a daily limit of 60, a purchase of 40 is APPROVED after an APPROVED
\* purchase of 40, and 60 is reported as remaining
C26_Witness ==
    \E p \in Procs :
        /\ procs[p].pc = "done"
        /\ procs[p].op = "authorize_purchase"
        /\ procs[p].status = "APPROVED"
        /\ procs[p].settings[1].daily_limit = 60
        /\ procs[p].remaining_daily = 60
        /\ Len(ledger) = 2
        /\ \A i \in 1..2 : /\ ledger[i].status = "APPROVED"
                           /\ ledger[i].amount = 40
                           /\ ledger[i].action_type = "purchase"
                           /\ ledger[i].category = "Food"

(* ---------------- claims about the isolation of principals ---------------- *)

\* the principal a call is made for
CallFor(c) == IF c.username # "none" THEN c.username ELSE
              IF c.user_id # None THEN c.user_id[1] ELSE "none"

\* a step of a call made for principal b
StepFor(b) ==
    \E p \in Procs :
        /\ procs'[p] # procs[p]
        /\ b \in {CallFor(procs[p]), CallFor(procs'[p])} \ {"none"}

\* what the decision of a purchase of principal a would be in table st and ledger lg
DecisionIn(st, spend, a, amount, category) ==
    IF RowsOf(st, a) = <<>> THEN Decide(SettingsRow(0, a, DefaultSingle, DefaultDaily,
                                                    DefaultWeekly, DefaultMonthly,
                                                    DefaultApproval, None, None, 0),
                                        spend, amount, category)
    ELSE Decide(RowsOf(st, a)[1], spend, amount, category)

\* C27: a step of a call for one principal leaves another principal's settings
\* row, records, cumulative spends, history and the decision and remaining
\* amounts a purchase of that principal would get as they were.
C27_PrincipalsIsolated ==
    [][\A a, b \in LedgerUsers : (a # b /\ StepFor(b) /\ ~StepFor(a)) =>
          /\ RowsOf(settings', a) = RowsOf(settings, a)
          /\ RowsOf(ledger', a) = RowsOf(ledger, a)
          /\ (a \in users') <=> (a \in users)
          /\ \A period \in Periods :
                 SumCounted(ledger', a, period, now') = SumCounted(ledger, a, period, now)
          /\ \A amount \in CodeAmounts, category \in ReasonCategories :
                 DecisionIn(settings', SumCounted(ledger', a, "daily", now'), a, amount, category)
                     = DecisionIn(settings, SumCounted(ledger, a, "daily", now), a, amount,
                                  category)
          /\ \A f \in {None, Some("APPROVED")} :
                 get_authorization_history(a, MaxLedger, f)' = get_authorization_history(a, MaxLedger, f)]_vars

\* one principal has an executed record and the default limits, and a call
\* for the other principal, which has a blocked category and a record of its
\* own, has just set that principal's limits
C27_Witness ==
    /\ procs["p1"].pc = "done"
    /\ procs["p1"].op = "set_agent_spending_limits"
    /\ procs["p1"].username = "bob"
    /\ procs["p1"].error = None
    /\ RowsOf(settings, "bob") # <<>>
    /\ RowsOf(settings, "bob")[1].daily_limit = 60
    /\ RowsOf(settings, "bob")[1].blocked_categories = Some({"Gambling"})
    /\ RowsOf(settings, "alice") # <<>>
    /\ RowsOf(settings, "alice")[1].daily_limit = DefaultDaily
    /\ RowsOf(settings, "alice")[1].blocked_categories = Some({})
    /\ RowsOf(ledger, "alice") # <<>>
    /\ RowsOf(ledger, "bob") # <<>>
    /\ get_cumulative_agent_spend("alice", "daily") = 40
    /\ get_cumulative_agent_spend("bob", "daily") = 0

(* ---------------- claims about the ERROR outcome ---------------- *)

\* a step of a call of authorize_purchase by task p
AuthorizeStep(p) ==
    /\ procs[p].op = "authorize_purchase"
    /\ procs[p].pc # "done"
    /\ procs'[p] # procs[p]

SetsLimits(p) ==
    /\ procs[p].op = "set_agent_spending_limits"
    /\ procs[p].pc \in {"settings_update", "limits_insert"}
    /\ procs'[p].pc = "done"
    /\ procs'[p].error = None

\* the default of a limit
DefaultOf(f) ==
    CASE f = "single_transaction_limit" -> DefaultSingle
      [] f = "daily_limit" -> DefaultDaily
      [] f = "weekly_limit" -> DefaultWeekly
      [] f = "monthly_limit" -> DefaultMonthly
      [] f = "require_approval_above" -> DefaultApproval

\* C29: after set_agent_spending_limits every supplied limit is stored as
\* given, 0 included, and every other limit has its previous value, or its
\* default when the call created the row.
C29_StoredAsGiven ==
    [][\A p \in Procs : SetsLimits(p) =>
          LET u == procs[p].username
              data == procs[p].data
              old == RowsOf(settings, u)
              new == RowsOf(settings', u)
          IN  /\ Len(new) = 1
              /\ \A f \in LimitFields :
                     new[1][f] = IF data[f] # None THEN data[f][1]
                                 ELSE IF old # <<>> THEN old[1][f]
                                 ELSE DefaultOf(f)]_vars

(* ---------------- claims about the active flag ---------------- *)

\* C30: the status and reasons of a decision are those the same call gets with
\* the active flag of the settings inverted; and no step of a tool changes the
\* flag of a row, every row a tool creates being active.
C30_ActiveFlagIgnored ==
    [][\A p \in Procs :
          /\ (procs[p].pc = "log" /\ Decides(p)) =>
                 LET s == procs[p].settings[1]
                     d == Decide([s EXCEPT !.is_active = ~s.is_active], procs[p].daily_spend,
                                 procs[p].amount, procs[p].category)
                 IN  /\ procs'[p].status = d.status
                     /\ procs'[p].reasons = d.reasons
          /\ (procs[p].op \in Tools /\ procs'[p] # procs[p]) =>
                 /\ Len(settings') >= Len(settings)
                 /\ \A i \in 1..Len(settings) : settings'[i].is_active = settings[i].is_active
                 /\ \A i \in (Len(settings) + 1)..Len(settings') :
                        settings'[i].is_active = TRUE]_vars

\* a purchase is APPROVED under settings that are switched off and that
\* set_agent_spending_limits has updated since
C30_Witness ==
    \E p \in Procs :
        /\ procs[p].pc = "done"
        /\ procs[p].op = "authorize_purchase"
        /\ procs[p].status = "APPROVED"
        /\ procs[p].settings[1].is_active = FALSE
        /\ procs[p].settings[1].daily_limit = 60
        /\ Len(ledger) = 1

====
